---- MODULE Spec2Model ----
(***************************************************************************)
(* Model of the REST client of src/client_base.py (Client.request and      *)
(* Client.headers) with the configuration defaults of src/config.py.       *)
(*                                                                         *)
(* Several threads, each owning one Client instance, call request().  The  *)
(* clients share one XOneEnv and may share one ApiConfig record.  The only *)
(* shared mutable state is the class-level lock Client._lock and the       *)
(* token_mgr slot of each ApiConfig record.                                *)
(*                                                                         *)
(* Spec     : one thread calls request() with every argument combination.  *)
(* ConcSpec : all threads call request() concurrently, with the default    *)
(*            arguments of get() (no is_mime, stream=False).               *)
(* FairSpec : ConcSpec with every thread eventually taking its next step.  *)
(*                                                                         *)
(* Durations: sleeps are in milliseconds (0.5 s = 500), timeouts in        *)
(* seconds.                                                                *)
(***************************************************************************)
EXTENDS Integers, Sequences, FiniteSets

\* ------------------------------------------------------------------ bounds

\* largest configured max_retries explored with one calling thread
MaxRetries == 3
\* largest configured max_retries explored with concurrent callers
ConcRetries == 1

\* ------------------------------------------------------- program constants

\* config.py: max_retries: int = optional(default=0)
DefaultMaxRetries == 0
\* config.py: timeout: int = optional(default=60)
DefaultTimeout == 60
\* client_base.py: time.sleep(0.5 * count), in milliseconds
SleepUnitMs == 500
\* client_base.py: timeout += count * 5
TimeoutUnit == 5

\* ------------------------------------------------------------ value domains

Threads == {"t1", "t2"}

\* the ApiConfig records of the shared XOneEnv that the clients use
Records == {"trade_information", "csa_information"}

\* which record each thread's Client was built with: the two clients share
\* one record, or use one each
ClientRecords ==
    {[t \in Threads |-> "trade_information"],
     [t \in Threads |-> IF t = "t1" THEN "trade_information" ELSE "csa_information"]}

\* datamodel.MISSING, the value of an optional() field that was never set
MISSING == "<MISSING>"

\* no thread holds Client._lock
Unlocked == "<unlocked>"

\* what the configuration JSON may say for sgconnect_env: key absent, the
\* empty string, or the explicit sentinel given by a caller that builds the
\* XOneEnv itself
ABSENT == "<absent>"
SgconnectEnvInputs == {ABSENT, "", MISSING}

\* XOneEnv.sgconnect_env: str = optional(default="dev")
XOneEnv_sgconnect_env(given) == IF given = ABSENT THEN "dev" ELSE given

\* RootConfig.max_retries; -1 is the negative edge case, 0 the default
RetryValues == {-1} \cup (DefaultMaxRetries .. MaxRetries)

\* RootConfig.timeout: the default and a shorter configured value
Timeouts == {DefaultTimeout, 10}

\* statuses the backend may answer with
Statuses == {200, 204, 299, 304, 403, 404, 500}

\* **params as a set of <<key, value>> pairs; only the is_mime key matters:
\* absent, or present with a value
ParamSets == {{}, {<<"is_mime", TRUE>>}, {<<"is_mime", FALSE>>}}

\* token_mgr: typing.Any = optional(): the slot holds MISSING (0 here) until
\* a token manager is stored; n > 0 is the n-th instance sgconnect returned
\* for the record
TokenMgrMissing == 0

\* ApiConfig.origin: str = optional(); one record configures it, one does not
ApiOrigin(r) == IF r = "trade_information" THEN "https://origin" ELSE MISSING

VARIABLES
    max_retries,    \* config.max_retries
    cfg_timeout,    \* config.timeout
    sgconnect_cfg,  \* what the configuration gave for sgconnect_env
    sgconnect_env,  \* self._env.sgconnect_env of the shared XOneEnv
    endpoint_ok,    \* whether self._env.endpoint is a URL urlsplit accepts
    api,            \* api[t]: the ApiConfig record of thread t's Client
    token_mgr,      \* token_mgr[r]: the slot of ApiConfig record r
    created,        \* created[r]: sgconnect() calls completed for record r
    lock,           \* Client._lock: its holder, or Unlocked
    pc,             \* pc[t]: position of thread t
    count,          \* request(): count
    error,          \* request(): error
    timeout,        \* request(): timeout
    params,         \* request(): the is_mime entry of **params
    stream,         \* request(): stream
    flag,           \* the is_mime value the caller passed to this request()
    is_mime,        \* request(): is_mime of the current attempt
    sent,           \* HTTP calls issued by this request(), in order
    slept,          \* time.sleep durations of this request(), in order
    hdrFailed,      \* whether headers() raised during this request()
    lastStatus,     \* status answered to the latest attempt, 0 if none
    outcome         \* how the request() ended

shared == <<max_retries, cfg_timeout, sgconnect_cfg, sgconnect_env, endpoint_ok, api>>
slot == <<token_mgr, created>>
locals == <<count, error, timeout, params, stream, flag, is_mime, sent,
            slept, hdrFailed, lastStatus, outcome>>
vars == <<shared, slot, lock, pc, locals>>

\* ---------------------------------------------------------- pure functions

\* def is_ok(status): return 299 >= status >= 200
is_ok(status) == 299 >= status /\ status >= 200

\* requests.Response.ok as check_response reads it: raise_for_status() does
\* not raise, i.e. the status is neither 4xx nor 5xx
resp_ok(status) == ~(400 <= status /\ status < 600)

\* check_response: "ok" when the response is passed through, else the class
\* of the exception raised
check_response(status) ==
    IF ~resp_ok(status)
    THEN IF status = 403 THEN "Unauthorized"
         ELSE IF status = 404 THEN "NotFound"
         ELSE "ClientError"
    ELSE "ok"

\* is_mime = params.pop("is_mime") if "is_mime" in params else False
HasIsMime(p) == \E kv \in p : kv[1] = "is_mime"
PopValue(p) == IF HasIsMime(p) THEN (CHOOSE kv \in p : kv[1] = "is_mime")[2] ELSE FALSE
PopRest(p) == {kv \in p : kv[1] # "is_mime"}

\* headers(): the first branch, on is_mime
BaseHeaders(mime) == IF ~mime THEN {"Content-Type", "Accept"} ELSE {}

\* a test for emptiness where the code tests for MISSING
NeedsTokenIfNonEmpty == sgconnect_env # ""

\* headers(): if self._env.sgconnect_env is not MISSING
NeedsToken == sgconnect_env # MISSING

\* headers(): the header names of the finished dict
Headers(mime, r) ==
    BaseHeaders(mime)
        \cup (IF NeedsToken THEN {"Authorization"} ELSE {})
        \cup (IF ApiOrigin(r) # MISSING THEN {"Origin"} ELSE {})

\* a loop test that is off by one
LoopContinuesStrict(c) == c < max_retries

\* while count <= config.max_retries
LoopContinues(c) == c <= max_retries

\* time.sleep(0.5 * count), count already incremented
SleepMs(c) == SleepUnitMs * c

\* a timeout that grows by a fixed step
NextTimeoutLinear(to, c) == to + TimeoutUnit

\* timeout += count * 5, count already incremented
NextTimeout(to, c) == to + c * TimeoutUnit

\* headers() without mutual exclusion
CanAcquireAlways(t) == TRUE

\* with self._lock: the lock can be taken when no thread holds it
CanAcquire(t) == lock = Unlocked

\* acquire()/release() by hand, with the release skipped by the exception
LockKeptAfterRaise(t) == t

\* leaving the with-block when sgconnect raised: __exit__ releases the lock
LockAfterRaise(t) == Unlocked

\* --------------------------------------------------------------------- Init

Init ==
    /\ max_retries \in RetryValues
    /\ cfg_timeout \in Timeouts
    /\ sgconnect_cfg \in SgconnectEnvInputs
    /\ sgconnect_env = XOneEnv_sgconnect_env(sgconnect_cfg)
    /\ endpoint_ok \in BOOLEAN
    /\ api \in ClientRecords
    /\ token_mgr = [r \in Records |-> TokenMgrMissing]
    /\ created = [r \in Records |-> 0]
    /\ lock = Unlocked
    /\ pc = [t \in Threads |-> "idle"]
    /\ count = [t \in Threads |-> 0]
    /\ error = [t \in Threads |-> "None"]
    /\ timeout = [t \in Threads |-> 0]
    /\ params = [t \in Threads |-> {}]
    /\ stream = [t \in Threads |-> FALSE]
    /\ flag = [t \in Threads |-> FALSE]
    /\ is_mime = [t \in Threads |-> FALSE]
    /\ sent = [t \in Threads |-> <<>>]
    /\ slept = [t \in Threads |-> <<>>]
    /\ hdrFailed = [t \in Threads |-> FALSE]
    /\ lastStatus = [t \in Threads |-> 0]
    /\ outcome = [t \in Threads |-> "none"]

\* ------------------------------------------------------------------ actions

\* the except branch of request(): count += 1; time.sleep(0.5 * count);
\* timeout += count * 5; error = exc; then back to the loop test
Except(t, exc) ==
    /\ count' = [count EXCEPT ![t] = @ + 1]
    /\ slept' = [slept EXCEPT ![t] = Append(@, SleepMs(count[t] + 1))]
    /\ timeout' = [timeout EXCEPT ![t] = NextTimeout(@, count[t] + 1)]
    /\ error' = [error EXCEPT ![t] = exc]
    /\ pc' = [pc EXCEPT ![t] = "loop"]

\* a caller enters request(method, *last, stream=s, **p): url = self.url(*last)
\* runs before the loop and outside the try
Request(t, p, s) ==
    /\ pc[t] = "idle"
    /\ params' = [params EXCEPT ![t] = p]
    /\ stream' = [stream EXCEPT ![t] = s]
    /\ flag' = [flag EXCEPT ![t] = PopValue(p)]
    /\ IF endpoint_ok
       THEN /\ timeout' = [timeout EXCEPT ![t] = cfg_timeout]
            /\ pc' = [pc EXCEPT ![t] = "loop"]
            /\ outcome' = outcome
       ELSE /\ outcome' = [outcome EXCEPT ![t] = "ValueError"]
            /\ pc' = [pc EXCEPT ![t] = "done"]
            /\ timeout' = timeout
    /\ UNCHANGED <<shared, slot, lock, count, error, is_mime, sent, slept,
                   hdrFailed, lastStatus>>

\* the loop test holds: pop is_mime and run headers(is_mime) through the
\* with-block: without sgconnect_env nothing is locked; otherwise the thread
\* waits for the lock, takes it and tests the slot, and either goes on to
\* sgconnect (holding the lock) or leaves the with-block (releasing it)
StartAttempt(t) ==
    /\ pc[t] = "loop"
    /\ LoopContinues(count[t])
    /\ is_mime' = [is_mime EXCEPT ![t] = PopValue(params[t])]
    /\ params' = [params EXCEPT ![t] = PopRest(@)]
    /\ IF ~NeedsToken
       THEN /\ pc' = [pc EXCEPT ![t] = "send"]
            /\ lock' = lock
       ELSE /\ CanAcquire(t)
            /\ IF token_mgr[api[t]] = TokenMgrMissing
               THEN /\ pc' = [pc EXCEPT ![t] = "sgconnect"]
                    /\ lock' = t
               ELSE /\ pc' = [pc EXCEPT ![t] = "send"]
                    /\ lock' = Unlocked
    /\ UNCHANGED <<shared, slot, count, error, timeout, stream, flag,
                   sent, slept, hdrFailed, lastStatus, outcome>>

\* the loop test fails: the while-else raises ClientError
Exhausted(t) ==
    /\ pc[t] = "loop"
    /\ ~LoopContinues(count[t])
    /\ outcome' = [outcome EXCEPT ![t] =
            IF error[t] # "None" THEN "ClientError" ELSE "ClientError without any exception"]
    /\ pc' = [pc EXCEPT ![t] = "done"]
    /\ UNCHANGED <<shared, slot, lock, count, error, timeout, params, stream,
                   flag, is_mime, sent, slept, hdrFailed, lastStatus>>

\* self._api.token_mgr = sgconnect(...) returns: the slot is filled with a
\* new instance and the with-block ends
SgconnectReturns(t) ==
    /\ pc[t] = "sgconnect"
    /\ created' = [created EXCEPT ![api[t]] = @ + 1]
    /\ token_mgr' = [token_mgr EXCEPT ![api[t]] = created[api[t]] + 1]
    /\ lock' = Unlocked
    /\ pc' = [pc EXCEPT ![t] = "send"]
    /\ UNCHANGED <<shared, locals>>

\* sgconnect(...) raises: no assignment, __exit__ of the with-block, and the
\* exception reaches the except branch of request()
SgconnectRaises(t) ==
    /\ pc[t] = "sgconnect"
    /\ lock' = LockAfterRaise(t)
    /\ hdrFailed' = [hdrFailed EXCEPT ![t] = TRUE]
    /\ lastStatus' = [lastStatus EXCEPT ![t] = 0]
    /\ Except(t, "SgconnectError")
    /\ UNCHANGED <<shared, slot, params, stream, flag, is_mime, sent, outcome>>

\* what goes on the wire: the rest of headers() and the session.request
\* call; get_token_value() is taken to return the token of the manager that
\* the slot holds
Wire(t) ==
    [attempt |-> count[t] + 1,
     timeout |-> timeout[t],
     is_mime |-> is_mime[t],
     headers |-> Headers(is_mime[t], api[t]),
     mgr |-> IF NeedsToken THEN token_mgr[api[t]] ELSE TokenMgrMissing]

CanSend(t) == pc[t] = "send"

\* session.request raises (timeout, connection failure)
SendRaises(t) ==
    /\ CanSend(t)
    /\ sent' = [sent EXCEPT ![t] = Append(@, Wire(t))]
    /\ lastStatus' = [lastStatus EXCEPT ![t] = 0]
    /\ Except(t, "Transport")
    /\ UNCHANGED <<shared, slot, lock, params, stream, flag, is_mime,
                   hdrFailed, outcome>>

\* session.request answers with a status that check_response rejects
SendRejected(t, status) ==
    /\ CanSend(t)
    /\ check_response(status) # "ok"
    /\ sent' = [sent EXCEPT ![t] = Append(@, Wire(t))]
    /\ lastStatus' = [lastStatus EXCEPT ![t] = status]
    /\ Except(t, check_response(status))
    /\ UNCHANGED <<shared, slot, lock, params, stream, flag, is_mime,
                   hdrFailed, outcome>>

\* session.request answers with a status that check_response passes: the
\* else branch returns resp.json() if not stream else resp; resp.json() is
\* outside the try, so its failure leaves request() as it is
SendAccepted(t, status, jsonBody) ==
    /\ CanSend(t)
    /\ check_response(status) = "ok"
    /\ sent' = [sent EXCEPT ![t] = Append(@, Wire(t))]
    /\ lastStatus' = [lastStatus EXCEPT ![t] = status]
    /\ outcome' = [outcome EXCEPT ![t] =
            IF stream[t] THEN "response"
            ELSE IF jsonBody THEN "json" ELSE "JSONDecodeError"]
    /\ pc' = [pc EXCEPT ![t] = "done"]
    /\ UNCHANGED <<shared, slot, lock, count, error, timeout, params, stream,
                   flag, is_mime, slept, hdrFailed>>

\* the caller has the result or the exception; the thread may call again
Return(t) ==
    /\ pc[t] = "done"
    /\ pc' = [pc EXCEPT ![t] = "idle"]
    /\ count' = [count EXCEPT ![t] = 0]
    /\ error' = [error EXCEPT ![t] = "None"]
    /\ timeout' = [timeout EXCEPT ![t] = 0]
    /\ params' = [params EXCEPT ![t] = {}]
    /\ stream' = [stream EXCEPT ![t] = FALSE]
    /\ flag' = [flag EXCEPT ![t] = FALSE]
    /\ is_mime' = [is_mime EXCEPT ![t] = FALSE]
    /\ sent' = [sent EXCEPT ![t] = <<>>]
    /\ slept' = [slept EXCEPT ![t] = <<>>]
    /\ hdrFailed' = [hdrFailed EXCEPT ![t] = FALSE]
    /\ lastStatus' = [lastStatus EXCEPT ![t] = 0]
    /\ outcome' = [outcome EXCEPT ![t] = "none"]
    /\ UNCHANGED <<shared, slot, lock>>

\* one step of thread t; Ps and Ss are the argument values callers pass
Step(t, Ps, Ss) ==
    \/ \E p \in Ps, s \in Ss : Request(t, p, s)
    \/ StartAttempt(t)
    \/ Exhausted(t)
    \/ SgconnectReturns(t)
    \/ SgconnectRaises(t)
    \/ SendRaises(t)
    \/ \E status \in Statuses : SendRejected(t, status)
    \/ \E status \in Statuses, jsonBody \in BOOLEAN : SendAccepted(t, status, jsonBody)
    \/ Return(t)

\* one calling thread, every argument combination
Next == Step("t1", ParamSets, BOOLEAN)

Spec == Init /\ [][Next]_vars

\* concurrent callers, default arguments, default timeout
ConcInit == Init /\ max_retries <= ConcRetries /\ cfg_timeout = DefaultTimeout

ConcStep(t) == Step(t, {{}}, {FALSE})

ConcNext == \E t \in Threads : ConcStep(t)

ConcSpec == ConcInit /\ [][ConcNext]_vars

\* a thread inside request() eventually takes its next step: the interpreter
\* schedules every runnable thread, and sgconnect and the HTTP call either
\* return or raise; nothing makes an idle thread call request() again
Progress(t) == pc[t] # "idle" /\ ConcStep(t)

FairSpec == ConcSpec /\ \A t \in Threads : WF_vars(Progress(t))

\* ------------------------------------------------------------------- claims

\* request() of thread t is over
Done(t) == pc[t] = "done"

\* request() of thread t ended in the else branch of the try
Accepted(t) == outcome[t] \in {"json", "response", "JSONDecodeError"}

\* request() of thread t ended in the final raise of the loop
Raised(t) == outcome[t] \in {"ClientError", "ClientError without any exception"}

\* the HTTP calls of thread t's request()
Calls(t) == {sent[t][i] : i \in DOMAIN sent[t]}

\* C1: with max_retries = N >= 0 and every attempt failing at the backend
\* (403, 404, another rejected status or a transport exception), request()
\* issues exactly N+1 HTTP calls and then raises ClientError.
C1_AttemptsWhenAllFail ==
    \A t \in Threads :
        (/\ Done(t)
         /\ max_retries >= 0
         /\ endpoint_ok
         /\ ~Accepted(t)
         /\ ~hdrFailed[t])
        => /\ Len(sent[t]) = max_retries + 1
           /\ outcome[t] = "ClientError"

\* a request that failed three times, the last time on a 403
C1_Witness ==
    /\ Done("t1")
    /\ max_retries = 2
    /\ Len(sent["t1"]) = 3
    /\ lastStatus["t1"] = 403
    /\ outcome["t1"] = "ClientError"

\* C2 as stated: the k-th attempt uses initialTimeout + 5*(k-1).
C2_TimeoutLinear ==
    \A t \in Threads : \A c \in Calls(t) :
        c.timeout = cfg_timeout + TimeoutUnit * (c.attempt - 1)

\* C2 amended: the k-th attempt uses initialTimeout + 5*(1 + ... + (k-1)),
\* that is initialTimeout + 5*k*(k-1)/2.
C2_TimeoutTriangular ==
    \A t \in Threads : \A c \in Calls(t) :
        c.timeout = cfg_timeout + TimeoutUnit * ((c.attempt * (c.attempt - 1)) \div 2)

\* a third attempt, sent with timeout 60 + 5 + 10
C2_Witness ==
    /\ cfg_timeout = DefaultTimeout
    /\ \E c \in Calls("t1") : c.attempt = 3 /\ c.timeout = DefaultTimeout + 15

\* C3 as stated: when every attempt fails, the sleeps of one request() are
\* 0.5 s, 1.0 s, ..., 0.5*N s, none of them after the last attempt.
C3_SleepsBetweenAttempts ==
    \A t \in Threads :
        (Done(t) /\ max_retries >= 0 /\ endpoint_ok /\ ~Accepted(t))
        => slept[t] = [i \in 1 .. max_retries |-> SleepUnitMs * i]

\* C4 as stated: request() ends by returning the parsed body or the raw
\* response, or by raising ClientError once the attempts are exhausted;
\* nothing else escapes.
C4_OnlyResultOrClientError ==
    \A t \in Threads :
        Done(t) =>
            \/ outcome[t] \in {"json", "response"}
            \/ Raised(t) /\ count[t] > max_retries

\* C5 as stated: an attempt succeeds only on a status in [200,299]; every
\* other status fails the attempt, 403 as Unauthorized, 404 as NotFound, the
\* rest as ClientError.
C5_SuccessOnly2xx ==
    \A t \in Threads :
        /\ outcome[t] \in {"json", "response"} => is_ok(lastStatus[t])
        /\ (lastStatus[t] # 0 /\ ~is_ok(lastStatus[t])) =>
               error[t] = (IF lastStatus[t] = 403 THEN "Unauthorized"
                           ELSE IF lastStatus[t] = 404 THEN "NotFound"
                           ELSE "ClientError")

\* C6: for one ApiConfig record sgconnect completes at most once, every
\* caller sends the token of that one instance, and a filled slot is never
\* written again.
C6_OneTokenManager ==
    /\ [](\A r \in Records : created[r] <= 1 /\ token_mgr[r] = created[r])
    /\ [](\A t \in Threads : \A c \in Calls(t) :
            NeedsToken => c.mgr # TokenMgrMissing /\ c.mgr = token_mgr[api[t]])
    /\ [][\A r \in Records :
            token_mgr[r] # TokenMgrMissing => token_mgr'[r] = token_mgr[r]]_vars

\* both clients share a record and both have sent a call with its token
C6_Witness ==
    /\ api["t1"] = api["t2"]
    /\ created[api["t1"]] = 1
    /\ \A t \in Threads : \E c \in Calls(t) : c.mgr = token_mgr[api["t1"]]

\* C7 as stated: with sgconnect_env absent or empty in the configuration, no
\* call carries Authorization and no token manager is created or queried.
C7_NoIdentifierNoToken ==
    sgconnect_cfg \in {ABSENT, ""} =>
        /\ \A r \in Records : created[r] = 0 /\ token_mgr[r] = TokenMgrMissing
        /\ \A t \in Threads :
            /\ pc[t] # "sgconnect"
            /\ \A c \in Calls(t) :
                "Authorization" \notin c.headers /\ c.mgr = TokenMgrMissing

\* C7 amended: when sgconnect_env is the MISSING sentinel, no call carries
\* Authorization and no token manager is created or queried.
C7_MissingNoToken ==
    sgconnect_env = MISSING =>
        /\ lock = Unlocked
        /\ \A r \in Records : created[r] = 0 /\ token_mgr[r] = TokenMgrMissing
        /\ \A t \in Threads :
            /\ pc[t] # "sgconnect"
            /\ \A c \in Calls(t) :
                "Authorization" \notin c.headers /\ c.mgr = TokenMgrMissing

\* a retried request under sgconnect_env = MISSING
C7_Witness ==
    /\ sgconnect_env = MISSING
    /\ \E c \in Calls("t1") : c.attempt = 2 /\ "Authorization" \notin c.headers

\* C8 as stated: the first attempt answered with a status in [200,299] ends
\* request(): the parsed body (the raw response under stream) is returned,
\* with no attempt or sleep after it.
C8_StopsAtFirst2xx ==
    \A t \in Threads :
        (Done(t) /\ Len(sent[t]) > 0 /\ is_ok(lastStatus[t])) =>
            /\ outcome[t] = (IF stream[t] THEN "response" ELSE "json")
            /\ Len(sent[t]) = count[t] + 1
            /\ Len(slept[t]) = count[t]
            /\ sent[t][Len(sent[t])].attempt = count[t] + 1

\* C9 as stated: a request made with is_mime set sends every attempt with
\* is_mime headers, that is without Content-Type and Accept.
C9_MimeOnEveryAttempt ==
    \A t \in Threads : \A c \in Calls(t) :
        /\ c.is_mime = flag[t]
        /\ flag[t] => c.headers \cap {"Content-Type", "Accept"} = {}

\* C10: when sgconnect raises, the lock is released, the slot stays empty
\* and the request has one more failed attempt; the lock is only ever held
\* by a thread inside sgconnect, and a held lock is eventually released.
C10_RaiseReleasesLock ==
    /\ [][\A t \in Threads :
            (pc[t] = "sgconnect" /\ pc'[t] = "loop") =>
                /\ lock' = Unlocked
                /\ token_mgr' = token_mgr
                /\ count'[t] = count[t] + 1]_vars
    /\ [](\A t \in Threads : lock = t => pc[t] = "sgconnect")
    /\ \A t \in Threads : (lock = t) ~> (lock = Unlocked)

\* sgconnect raised in a request whose later attempt sent a token
C10_Witness ==
    \E t \in Threads :
        /\ hdrFailed[t]
        /\ lock = Unlocked
        /\ \E c \in Calls(t) : c.mgr # TokenMgrMissing

====
